---- MODULE Spec2Model ----
(***************************************************************************)
(* Model of loadbalancer.go: the HTTP handler handleRequest and the        *)
(* LoadBalancer methods getAvailableNodes, selectNode, sendRequestToNode.  *)
(* Every inbound request runs handleRequest in its own goroutine; the      *)
(* goroutines share the "requests" collection (the usage ledger), the      *)
(* NodeLimits map and the wall clock.  A step of the model is one access   *)
(* to shared state together with the local code around it.                 *)
(*                                                                         *)
(* The aggregation pipeline is modelled by what it asks the store for:     *)
(* $match timestamp > currentTime, $group by node_id with a count and a    *)
(* bpm sum; one row of the result is read as (NodeID, RequestsCnt,         *)
(* TotalBPM).                                                              *)
(***************************************************************************)
EXTENDS Integers, Sequences, FiniteSets, TLC

\* ---------------------------------------------------------------- bounds
NumRequests == 3          \* request goroutines in one run
PairRequests == 2         \* requests that arrive in a run of SpecPair
MaxTime     == 60         \* last clock value explored (seconds)

\* ------------------------------------------------------------- constants
Minute == 60              \* time.Minute, in seconds

Requests == 1 .. NumRequests
NodeIds  == {"A", "B", "C"}          \* "C" is never registered
BPMs     == {-30, 30}                \* request.BPM values of well-formed bodies
Steps    == {Minute \div 2, Minute}  \* how far the clock moves in one Tick

\* r.Body: not received yet, a body json.Decode rejects, or {"bpm": b}
NoBody    == [kind |-> "none", bpm |-> 0]
Malformed == [kind |-> "malformed", bpm |-> 0]
Json(b)   == [kind |-> "json", bpm |-> b]
NoNode == ""                          \* selectNode's "no node" result
NoTime == -1000                       \* currentTime before time.Now() is read

\* NodeLimits maps the program may run with: the map of main (no entry),
\* a single node, and the two nodes A and B; PairAB gives both nodes room.
Limit(rpm, bpm) == [RPMLimit |-> rpm, BPMLimit |-> bpm]
OnlyA    == [n \in {"A"} |-> Limit(4, 60)]
ScenarioAB == [n \in {"A", "B"} |-> IF n = "A" THEN Limit(2, 100) ELSE Limit(1, 50)]
PairAB   == [n \in {"A", "B"} |-> Limit(2, 100)]
NoLimits == [n \in {} |-> Limit(0, 0)]
LimitMaps == {NoLimits, OnlyA, ScenarioAB}

VARIABLES
    now,                 \* the wall clock, time.Now()
    requestsCollection,  \* the "requests" collection: sequence of documents
    NodeLimits,          \* LoadBalancer.NodeLimits
    alive,               \* FALSE once log.Fatal has ended the process
    pc,                  \* per request: position in handleRequest
    body,                \* per request: r.Body
    request,             \* per request: request.BPM (0 until decoded)
    currentTime,         \* per request: local currentTime of getAvailableNodes
    availableNodes,      \* per request: local availableNodes
    selectedNode,        \* per request: selectedNode of handleRequest
    status,              \* per request: HTTP status written, 0 if none
    forwarded,           \* per request: node printed by "Forwarding request"
    nSeed,               \* number of documents the collection held at start-up
    overlap              \* TRUE once a request arrived while another was in flight

vars == <<now, requestsCollection, NodeLimits, alive, pc, body, request, currentTime,
          availableNodes, selectedNode, status, forwarded, nSeed, overlap>>

locals == <<body, request, currentTime, availableNodes, selectedNode, status,
            forwarded>>

\* ------------------------------------------------------------ helpers
RECURSIVE SumBPM(_, _)
SumBPM(ledger, idx) ==
    IF idx = {} THEN 0
    ELSE LET i == CHOOSE j \in idx : TRUE
         IN  ledger[i].bpm + SumBPM(ledger, idx \ {i})

\* $match: documents with timestamp > currentTime
Matched(ledger, ct) == {i \in 1 .. Len(ledger) : ledger[i].timestamp > ct}

\* $group by node_id: one row per node that has a matched document
Aggregate(ledger, ct) ==
    LET m  == Matched(ledger, ct)
        ids == {ledger[i].node_id : i \in m}
    IN  [n \in ids |->
            LET mine == {i \in m : ledger[i].node_id = n}
            IN  [RequestsCnt |-> Cardinality(mine), TotalBPM |-> SumBPM(ledger, mine)]]

\* Lookup with a default limit for an unknown node instead of the zero value
LookupDefault(limits, id) ==
    IF id \in DOMAIN limits THEN limits[id] ELSE Limit(2, 100)

\* lb.NodeLimits[id]: a Go map yields the zero value for a missing key
Lookup(limits, id) ==
    IF id \in DOMAIN limits THEN limits[id] ELSE Limit(0, 0)

\* the condition of line 91
BelowLimits(row, lim) ==
    row.RequestsCnt < lim.RPMLimit /\ row.TotalBPM < lim.BPMLimit

\* the loop of getAvailableNodes over the rows
Available(rows, limits) ==
    {n \in DOMAIN rows : BelowLimits(rows[n], Lookup(limits, n))}

\* What the collection may hold when the process starts: for any set of node
\* ids, one document per node, written at time 0 by an earlier run.
SeedOf(S, n) ==
    IF n \in S THEN <<[timestamp |-> 0, node_id |-> n, bpm |-> 30]>> ELSE <<>>
SeedFor(S) == SeedOf(S, "A") \o SeedOf(S, "B") \o SeedOf(S, "C")
Seeds == {SeedFor(S) : S \in SUBSET NodeIds}

\* The start-up states: a NodeLimits map and the content of the collection.
Starts == {<<lim, seed>> : lim \in LimitMaps, seed \in Seeds}
PairStart == {<<PairAB, SeedFor({"A", "B"})>>}

InFlight == {r \in Requests : pc[r] \in {"query", "insert"}}

\* ------------------------------------------------------------ initial state
InitWith(starts) ==
    /\ now = 0
    /\ \E st \in starts :
         /\ NodeLimits = st[1]
         /\ requestsCollection = st[2]
    /\ nSeed = Len(requestsCollection)
    /\ alive = TRUE
    /\ pc = [r \in Requests |-> "recv"]
    /\ body = [r \in Requests |-> NoBody]
    /\ request = [r \in Requests |-> 0]
    /\ currentTime = [r \in Requests |-> NoTime]
    /\ availableNodes = [r \in Requests |-> {}]
    /\ selectedNode = [r \in Requests |-> NoNode]
    /\ status = [r \in Requests |-> 0]
    /\ forwarded = [r \in Requests |-> NoNode]
    /\ overlap = FALSE

Init == InitWith(Starts)

\* ------------------------------------------------------------ actions
\* the clock advances
Tick ==
    /\ \E d \in Steps :
         /\ now + d <= MaxTime
         /\ now' = now + d
    /\ UNCHANGED <<requestsCollection, NodeLimits, alive, pc, locals, nSeed, overlap>>

\* Requests are interchangeable: they are numbered in their order of arrival.
Arrives(r) ==
    /\ alive /\ pc[r] = "recv"
    /\ \A q \in Requests : q < r => pc[q] # "recv"
    /\ overlap' = (overlap \/ InFlight # {})

\* DecodeError without the return of line 127: the 400 is written and the
\* handler goes on to selectNode with the zero-valued request
DecodeErrorNoReturn(r) ==
    /\ Arrives(r)
    /\ body' = [body EXCEPT ![r] = Malformed]
    /\ status' = [status EXCEPT ![r] = 400]
    /\ currentTime' = [currentTime EXCEPT ![r] = now - Minute]
    /\ pc' = [pc EXCEPT ![r] = "query"]
    /\ UNCHANGED <<now, requestsCollection, NodeLimits, alive, request,
                   availableNodes, selectedNode, forwarded, nSeed>>

\* handleRequest, lines 123-128: the body does not parse
DecodeError(r) ==
    /\ Arrives(r)
    /\ body' = [body EXCEPT ![r] = Malformed]
    /\ pc' = [pc EXCEPT ![r] = "done"]
    /\ status' = [status EXCEPT ![r] = 400]
    /\ UNCHANGED <<now, requestsCollection, NodeLimits, alive, request, currentTime,
                   availableNodes, selectedNode, forwarded, nSeed>>

\* handleRequest lines 123-130 with a body that parses, then line 66 of
\* getAvailableNodes: the clock is read
Snapshot(r) ==
    /\ Arrives(r)
    /\ \E b \in BPMs :
         /\ body' = [body EXCEPT ![r] = Json(b)]
         /\ request' = [request EXCEPT ![r] = b]
    /\ currentTime' = [currentTime EXCEPT ![r] = now - Minute]
    /\ pc' = [pc EXCEPT ![r] = "query"]
    /\ UNCHANGED <<now, requestsCollection, NodeLimits, alive,
                   availableNodes, selectedNode, status, forwarded, nSeed>>

\* selectNode that always returns the first available node (index 0 instead of
\* rand.Intn)
ChoicesFirst(avail) ==
    IF avail = {} THEN {NoNode}
    ELSE IF "A" \in avail THEN {"A"} ELSE avail

\* selectNode, lines 100-103: rand.Intn picks any element; "" when there is none
Choices(avail) == IF avail # {} THEN avail ELSE {NoNode}

\* getAvailableNodes lines 69-95 (the store answers the aggregation), selectNode,
\* handleRequest lines 130-137 and, for a selected node, line 108
Query(r) ==
    /\ alive /\ pc[r] = "query"
    /\ LET rows  == Aggregate(requestsCollection, currentTime[r])
           avail == Available(rows, NodeLimits)
       IN  /\ availableNodes' = [availableNodes EXCEPT ![r] = avail]
           /\ \E n \in Choices(avail) :
                /\ selectedNode' = [selectedNode EXCEPT ![r] = n]
                /\ IF n # NoNode
                   THEN /\ forwarded' = [forwarded EXCEPT ![r] = n]
                        /\ pc' = [pc EXCEPT ![r] = "insert"]
                        /\ UNCHANGED status
                   ELSE /\ status' = [status EXCEPT ![r] = 429]
                        /\ pc' = [pc EXCEPT ![r] = "done"]
                        /\ UNCHANGED forwarded
    /\ UNCHANGED <<now, requestsCollection, NodeLimits, alive, body, request,
                   currentTime, nSeed, overlap>>

\* getAvailableNodes, lines 79-81: the store fails, log.Fatal ends the process
QueryFail(r) ==
    /\ alive /\ pc[r] = "query"
    /\ alive' = FALSE
    /\ pc' = [pc EXCEPT ![r] = "fatal"]
    /\ UNCHANGED <<now, requestsCollection, NodeLimits, locals, nSeed, overlap>>

\* InsertOne that writes the document a second time (a retried insert)
InsertOneTwice(r) ==
    /\ alive /\ pc[r] = "insert"
    /\ LET doc == [timestamp |-> now, node_id |-> selectedNode[r], bpm |-> request[r]]
       IN  requestsCollection' = Append(Append(requestsCollection, doc), doc)
    /\ status' = [status EXCEPT ![r] = 200]
    /\ pc' = [pc EXCEPT ![r] = "done"]
    /\ UNCHANGED <<now, NodeLimits, alive, body, request, currentTime,
                   availableNodes, selectedNode, forwarded, nSeed, overlap>>

\* InsertOne as an update of the node's document ("Update BPM in the
\* database"): the node's latest document is overwritten when there is one
InsertOneUpsert(r) ==
    /\ alive /\ pc[r] = "insert"
    /\ LET doc  == [timestamp |-> now, node_id |-> selectedNode[r], bpm |-> request[r]]
           mine == {i \in 1 .. Len(requestsCollection) :
                       requestsCollection[i].node_id = selectedNode[r]}
       IN  IF mine = {}
           THEN requestsCollection' = Append(requestsCollection, doc)
           ELSE LET i == CHOOSE j \in mine : \A k \in mine : k <= j
                IN  requestsCollection' = [requestsCollection EXCEPT ![i] = doc]
    /\ status' = [status EXCEPT ![r] = 200]
    /\ pc' = [pc EXCEPT ![r] = "done"]
    /\ UNCHANGED <<now, NodeLimits, alive, body, request, currentTime,
                   availableNodes, selectedNode, forwarded, nSeed, overlap>>

\* sendRequestToNode lines 112-116 (the clock is read again for the document),
\* handleRequest lines 133-134
InsertOne(r) ==
    /\ alive /\ pc[r] = "insert"
    /\ requestsCollection' = Append(requestsCollection,
           [timestamp |-> now, node_id |-> selectedNode[r], bpm |-> request[r]])
    /\ status' = [status EXCEPT ![r] = 200]
    /\ pc' = [pc EXCEPT ![r] = "done"]
    /\ UNCHANGED <<now, NodeLimits, alive, body, request, currentTime,
                   availableNodes, selectedNode, forwarded, nSeed, overlap>>

\* sendRequestToNode, lines 117-119: the store fails, log.Fatal ends the process
InsertFail(r) ==
    /\ alive /\ pc[r] = "insert"
    /\ alive' = FALSE
    /\ pc' = [pc EXCEPT ![r] = "fatal"]
    /\ UNCHANGED <<now, requestsCollection, NodeLimits, locals, nSeed, overlap>>

Next ==
    \/ Tick
    \/ \E r \in Requests : DecodeError(r)
    \/ \E r \in Requests : Snapshot(r)
    \/ \E r \in Requests : Query(r)
    \/ \E r \in Requests : QueryFail(r)
    \/ \E r \in Requests : InsertOne(r)
    \/ \E r \in Requests : InsertFail(r)

Spec == Init /\ [][Next]_vars

\* Two nodes that both have room and an event each in the collection, with
\* the first PairRequests requests arriving.
InitPair == InitWith(PairStart)
NextPair == Next /\ \A r \in Requests : r > PairRequests => pc'[r] = "recv"
SpecPair == InitPair /\ [][NextPair]_vars

\* ------------------------------------------------------------ vocabulary
\* The terms of the design document, used to state the properties below.
Registered == DOMAIN NodeLimits

\* the events of node n with timestamp in (t - 60s, t]
Window(ledger, n, t) ==
    {i \in 1 .. Len(ledger) :
        /\ ledger[i].node_id = n
        /\ ledger[i].timestamp > t - Minute
        /\ ledger[i].timestamp <= t}
WindowCount(ledger, n, t) == Cardinality(Window(ledger, n, t))
WindowTotal(ledger, n, t) == SumBPM(ledger, Window(ledger, n, t))

\* EligibilitySet of the data model
Eligible(ledger, t) ==
    {n \in Registered :
        /\ WindowCount(ledger, n, t) < NodeLimits[n].RPMLimit
        /\ WindowTotal(ledger, n, t) < NodeLimits[n].BPMLimit}

\* every registered node is at or above one of its limits
AllAtLimit(ledger, t) ==
    \A n \in Registered :
        \/ WindowCount(ledger, n, t) >= NodeLimits[n].RPMLimit
        \/ WindowTotal(ledger, n, t) >= NodeLimits[n].BPMLimit

\* the "now" request r snapshotted: currentTime is now - 1 minute
SnapNow(r) == currentTime[r] + Minute

\* request r reads the ledger and decides in this step
Decides(r) == pc[r] = "query" /\ pc'[r] \in {"insert", "done"}

\* documents appended since start-up
Appended == nSeed + 1 .. Len(requestsCollection)

\* ------------------------------------------------------------ properties

\* C1: with a single registered node and every request carrying the same
\* workload w > 0, the requests admitted to the node with events in any one
\* 60-second window number at most floor(bpm_limit / w), whatever the
\* interleaving of the handlers.
C1_NoOverAdmission ==
    \A n \in Registered : \A w \in BPMs :
        ( /\ Registered = {n}
          /\ w > 0
          /\ \A r \in Requests : body[r] \in {NoBody, Json(w)} )
        => \A t \in 0 .. MaxTime :
              Cardinality(Window(requestsCollection, n, t) \cap Appended)
                  <= NodeLimits[n].BPMLimit \div w

\* C2: read-eligibility / select / append of one request is atomic with
\* respect to the others: no request reads the ledger while another request
\* is between its own read and its append.
C2_AtomicDecision ==
    [][\A r \in Requests :
          Decides(r) => \A q \in Requests \ {r} : pc[q] # "insert"]_vars

\* C3: the eligible set computed by a request is exactly the set of registered
\* nodes whose window count and window workload are strictly below their
\* limits, nodes without any event in the window included.
C3_EligibleExactly ==
    [][\A r \in Requests :
          Decides(r) => availableNodes'[r] = Eligible(requestsCollection, SnapNow(r))]_vars

\* C4: the boundary is strict for every positive rpm_limit: a registered node
\* below its bpm_limit is eligible at count = rpm_limit - 1 and not eligible at
\* count = rpm_limit.
C4_StrictBoundary ==
    [][\A r \in Requests : \A n \in Registered :
          ( /\ Decides(r)
            /\ WindowTotal(requestsCollection, n, SnapNow(r)) < NodeLimits[n].BPMLimit )
          => /\ WindowCount(requestsCollection, n, SnapNow(r)) = NodeLimits[n].RPMLimit - 1
                  => n \in availableNodes'[r]
             /\ WindowCount(requestsCollection, n, SnapNow(r)) = NodeLimits[n].RPMLimit
                  => n \notin availableNodes'[r]]_vars

\* C5: when every registered node is at or above one of its limits, the
\* request is rejected with 429 and the ledger is left as it was.
C5_EmptyEligibilityRejects ==
    [][\A r \in Requests :
          (Decides(r) /\ AllAtLimit(requestsCollection, SnapNow(r)))
          => /\ status'[r] = 429
             /\ pc'[r] = "done"
             /\ requestsCollection' = requestsCollection]_vars

\* C6: nodes A (2, 100) and B (1, 50), empty ledger, three requests with
\* bpm = 30 handled one after another inside one window: the first two are
\* admitted to A or B, the third is rejected with 429.
C6_Scenario ==
    ( /\ NodeLimits = ScenarioAB
      /\ nSeed = 0
      /\ ~overlap
      /\ now < Minute
      /\ \A r \in Requests : body[r] \in {NoBody, Json(30)} )
    => \A r \in Requests :
          pc[r] = "done" =>
             /\ r \in {1, 2} => status[r] = 200 /\ selectedNode[r] \in {"A", "B"}
             /\ r = 3 => status[r] = 429

\* C7: the count and the workload total a decision uses for a node are those
\* of the node's events with timestamp in (now - 60s, now], now being the
\* decision's snapshot: an event stamped later than now is not counted.
C7_WindowCorrect ==
    [][\A r \in Requests :
          Decides(r) =>
             LET rows == Aggregate(requestsCollection, currentTime[r])
             IN  \A n \in DOMAIN rows :
                    /\ rows[n].RequestsCnt = WindowCount(requestsCollection, n, SnapNow(r))
                    /\ rows[n].TotalBPM = WindowTotal(requestsCollection, n, SnapNow(r))]_vars

\* C8: a store failure during the read or the append ends that request with an
\* outcome of its own (neither success nor 429), adds no event, and leaves the
\* service running.
C8_StoreFailureSurvived ==
    [][\A r \in Requests :
          (pc[r] # "fatal" /\ pc'[r] = "fatal")
          => /\ status'[r] \notin {0, 200, 429}
             /\ alive'
             /\ requestsCollection' = requestsCollection]_vars

\* C9: a request whose body does not parse is answered 400 before any
\* admission logic: no clock snapshot, no ledger read, no node selected,
\* nothing forwarded, ledger and capacity table unchanged.
C9_MalformedRejectedFirst ==
    [][\A r \in Requests :
          body'[r] = Malformed
          => /\ status'[r] = 400
             /\ pc'[r] = "done"
             /\ currentTime'[r] = NoTime
             /\ availableNodes'[r] = {}
             /\ selectedNode'[r] = NoNode
             /\ forwarded'[r] = NoNode
             /\ body[r] # Malformed
                   => /\ requestsCollection' = requestsCollection
                      /\ NodeLimits' = NodeLimits]_vars

\* a malformed request was answered while a node had headroom
C9_Witness ==
    \E r \in Requests :
        /\ body[r] = Malformed
        /\ status[r] = 400
        /\ Available(Aggregate(requestsCollection, now - Minute), NodeLimits) # {}

\* C10: a node without a NodeLimits entry is never eligible and never chosen,
\* even when the ledger holds events of such a node: no request lists it,
\* selects it, or appends an event for it.
C10_UnregisteredNeverChosen ==
    /\ \A r \in Requests :
          /\ availableNodes[r] \subseteq Registered
          /\ selectedNode[r] \in Registered \cup {NoNode}
    /\ \A i \in Appended : requestsCollection[i].node_id \in Registered

\* a request was admitted while an unregistered node's event was in its window
C10_Witness ==
    \E r \in Requests :
        /\ status[r] = 200
        /\ \E i \in 1 .. nSeed :
              /\ requestsCollection[i].node_id \notin Registered
              /\ requestsCollection[i].timestamp > currentTime[r]

\* the requests that were answered with success
Succeeded == {r \in Requests : status[r] = 200}

\* C11: one usage event per admitted request: the documents appended since
\* start-up are as many as the requests answered with success, and the
\* document a request appends carries the node of its response and the bpm of
\* its body.
C11_OneEventPerAdmission ==
    [][/\ Cardinality(Appended)' = Cardinality(Succeeded)'
       /\ \A r \in Requests :
             (status[r] # 200 /\ status'[r] = 200)
             => LET doc == requestsCollection'[Len(requestsCollection')]
                IN  /\ doc.node_id = selectedNode'[r]
                    /\ doc.bpm = body'[r].bpm]_vars

\* two requests were admitted, with different workloads
C11_Witness ==
    \E r, q \in Succeeded :
        /\ body[r].bpm # body[q].bpm
        /\ Cardinality(Appended) = 2

\* C12: the node a request selects is a member of the eligible set computed in
\* the same call, every member of a non-empty eligible set can be the one
\* selected, and the selection is "" exactly when the set is empty.
C12_SelectionWithinEligible ==
    /\ \A r \in Requests :
          /\ selectedNode[r] # NoNode => selectedNode[r] \in availableNodes[r]
          /\ (pc[r] \in {"insert", "done"} /\ body[r] # Malformed)
                => (selectedNode[r] = NoNode <=> availableNodes[r] = {})
    /\ \A r \in Requests :
          (alive /\ pc[r] = "query")
          => \A n \in Available(Aggregate(requestsCollection, currentTime[r]), NodeLimits) :
                ENABLED (Query(r) /\ selectedNode'[r] = n)

\* a request is about to choose between two eligible nodes, and another one
\* has chosen from a two-node set
C12_Witness ==
    \E r, q \in Requests :
        /\ pc[r] = "query"
        /\ Cardinality(Available(Aggregate(requestsCollection, currentTime[r]), NodeLimits)) = 2
        /\ Cardinality(availableNodes[q]) = 2
        /\ selectedNode[q] = "B"

\* C14: in every reachable state, for every registered node and every instant
\* t, the node has at most rpm_limit events with timestamp in (t - 60s, t].
C14_RpmCeiling ==
    \A n \in Registered : \A t \in 0 .. MaxTime :
        WindowCount(requestsCollection, n, t) <= NodeLimits[n].RPMLimit

\* the events of node n in the ledger
EventsOf(ledger, n) == {i \in 1 .. Len(ledger) : ledger[i].node_id = n}

\* C15: rejection is not permanent: a registered node whose events have all
\* aged out of the window of a decision is eligible in that decision.
C15_AgedOutEligibleAgain ==
    [][\A r \in Requests : \A n \in Registered :
          ( /\ Decides(r)
            /\ EventsOf(requestsCollection, n) # {}
            /\ \A i \in EventsOf(requestsCollection, n) :
                  requestsCollection[i].timestamp <= SnapNow(r) - Minute )
          => n \in availableNodes'[r]]_vars

\* request r appends its document in this step
Appends(r) == pc[r] = "insert" /\ pc'[r] = "done"

\* C16: the document a request appends is stamped with the now the request
\* snapshotted for its window; the clock is not read a second time.
C16_StampIsSnapshot ==
    [][\A r \in Requests :
          Appends(r)
          => requestsCollection'[Len(requestsCollection')].timestamp = SnapNow(r)]_vars

\* C17: a request is forwarded only after its usage event is in the ledger, so
\* a request whose append fails is never forwarded.
C17_ForwardAfterAppend ==
    \A r \in Requests : forwarded[r] # NoNode => status[r] = 200

\* C18: the ledger is append-only and the limits are never touched: every step
\* keeps the documents already in the collection, in place and unchanged, and
\* leaves NodeLimits as it was.
C18_AppendOnly ==
    [][/\ NodeLimits' = NodeLimits
       /\ Len(requestsCollection') >= Len(requestsCollection)
       /\ \A i \in 1 .. Len(requestsCollection) :
             requestsCollection'[i] = requestsCollection[i]]_vars

\* two requests were admitted to a node that already had a document, one was
\* rejected, and all earlier documents are still there
C18_Witness ==
    /\ nSeed >= 1
    /\ Cardinality(Appended) = 2
    /\ \E r \in Requests : status[r] = 429
    /\ \E i \in Appended : requestsCollection[i].node_id = requestsCollection[1].node_id

\* C19: every document appended by a request has workload >= 0: a request
\* with a negative bpm produces no usage event.
C19_WorkloadNonNegative ==
    \A i \in Appended : requestsCollection[i].bpm >= 0
====
